---- MODULE Spec2Model ----
(***************************************************************************)
(* Model of the terminal workflow builder (src/src/index.js).              *)
(*                                                                         *)
(* The program keeps three module-level variables (nodes, connections,     *)
(* selectedNode), three widgets whose text it sets (the node list, the     *)
(* canvas and the properties panel) and prints exported documents on the   *)
(* standard output.  Every handler runs to completion before the next      *)
(* event is taken, so each handler is one action.                          *)
(***************************************************************************)
EXTENDS Integers, Sequences, FiniteSets, TLC

(* ---- bounds of the model ---- *)

\* number of add events in one run
MaxAdds == 2

\* the run lasts MaxClock milliseconds: Date.now() reads 0 .. MaxClock
MaxClock == 1

\* number of generate events in one run
MaxExports == 2

\* number of connections in a registry drawn for the cascade of deleteNode
MaxEdges == 2

\* number of nodes in a registry drawn for the order of the nodes
MaxDrawn == 3

VARIABLES
    nodes,              \* let nodes = []            (index.js:31)
    connections,        \* let connections = []      (index.js:32)
    selectedNode,       \* let selectedNode = null   (index.js:33)
    listItems,          \* the items last given to nodeList.setItems
    canvasContent,      \* the chunks of the string last given to canvas.setContent
    propertiesContent,  \* the text last given to propertiesPanel.setContent
    printed,            \* the workflow document generateCode printed last (<<>> if none)
    workflowIds,        \* the workflow_id of every document printed so far, in order
    addCount,           \* number of add events handled so far
    deleteCount,        \* number of delete events handled while a node was selected
    lastEvent,          \* the event handled last (index: the index a select carried,
                        \* kind: the kind an add carried)
    outcome,            \* what the handler of the last event reported to its caller
    now                 \* the last reading of Date.now(); the clock does not run backwards

vars == <<nodes, connections, selectedNode, listItems, canvasContent,
          propertiesContent, printed, workflowIds, addCount, deleteCount,
          lastEvent, outcome, now>>

(* ---- static data ---- *)

\* const NODE_TYPES = { agent: {...}, groupchat: {...}, sequential: {...}, parallel: {...} }
NODE_TYPES ==
    [ agent      |-> [label |-> "Agent Node", color |-> "cyan",
                      description |-> "Single agent invocation"],
      groupchat  |-> [label |-> "Group Chat", color |-> "magenta",
                      description |-> "Multi-agent conversation"],
      sequential |-> [label |-> "Sequential", color |-> "red",
                      description |-> "Ordered execution"],
      parallel   |-> [label |-> "Parallel", color |-> "yellow",
                      description |-> "Concurrent execution"] ]

\* the keys the help bar advertises: [a] [i] [s] [p] [d] [c] [g] [q]
HelpBarKeys == {"a", "i", "s", "p", "d", "c", "g", "q"}

\* the keys screen.key binds a handler to
BoundKeys == {"a", "A", "i", "I", "s", "S", "p", "P", "d", "D", "g", "G", "q", "Q", "C-c"}

\* the kinds the key bindings a/i/s/p pass to addNode
Kinds == DOMAIN NODE_TYPES

\* JavaScript null, the value of selectedNode when nothing is selected
null == "null"

\* the readings Date.now() can return when the previous reading was `from`:
\* the same millisecond again, or a later one
Clock(from) == from .. MaxClock

\* the indexes a select event of the list widget can carry (0-based)
SelectIndexes == 0 .. MaxAdds

(* ---- JavaScript helpers ---- *)

\* truthiness of an array value: every array, the empty one included, is truthy
ArrayTruthy(a) == TRUE

\* truthiness of selectedNode: null is falsy, a non-empty string is truthy
IdTruthy(id) == id # null

\* nodes.find(n => n.id === id): position of the first node with that id, 0 if none
RECURSIVE FindFrom(_, _, _)
FindFrom(ns, id, i) ==
    IF i > Len(ns) THEN 0
    ELSE IF ns[i].id = id THEN i
    ELSE FindFrom(ns, id, i + 1)

Find(ns, id) == FindFrom(ns, id, 1)

\* the ids of the nodes in a registry
IdsOf(ns) == {ns[i].id : i \in DOMAIN ns}

(* ---- renderNodes ---- *)

\* `{${type.color}}${type.label}{/}: ${n.name}`
ListItem(n) ==
    "{" \o NODE_TYPES[n.type].color \o "}" \o NODE_TYPES[n.type].label \o "{/}: " \o n.name

ListPlaceholder == "No nodes yet. Press a/i/s/p to add."

\* nodeList.setItems(items || ['No nodes yet. Press a/i/s/p to add.'])
RenderList(ns) ==
    LET items == [i \in 1 .. Len(ns) |-> ListItem(ns[i])]
    IN  IF ArrayTruthy(items) THEN items ELSE <<ListPlaceholder>>

\* `  {${type.color}}●{/} ${node.name} [${type.label}]\n`
CanvasNodeLine(n) ==
    "  {" \o NODE_TYPES[n.type].color \o "}*{/} " \o n.name
         \o " [" \o NODE_TYPES[n.type].label \o "]\n"

CanvasConnectionsHeader == "\n  Connections:\n"

CanvasEmptyMarker == "\n  {grey}No nodes yet. Press a/i/s/p to add a node.{/}\n"

\* the lines of the connections that resolve at both ends, in order
RECURSIVE CanvasConnectionLines(_, _)
CanvasConnectionLines(ns, cs) ==
    IF cs = <<>> THEN <<>>
    ELSE LET from == Find(ns, Head(cs).from)
             to   == Find(ns, Head(cs).to)
             rest == CanvasConnectionLines(ns, Tail(cs))
         IN  IF from # 0 /\ to # 0
             THEN <<"  " \o ns[from].name \o " -> " \o ns[to].name \o "\n">> \o rest
             ELSE rest

\* a plausible slip in the test for connections: the section is always written
HasConnectionsOffByOne(cs) == Len(cs) >= 0

\* if (connections.length > 0)
HasConnections(cs) == Len(cs) > 0

\* a plausible slip in the empty-registry test: the marker also shown for one node
CanvasIsEmptyOffByOne(ns) == Len(ns) <= 1

\* if (nodes.length === 0)
CanvasIsEmpty(ns) == Len(ns) = 0

\* the string built in canvasContent, as the sequence of the chunks appended to it
RenderCanvas(ns, cs) ==
    <<"\n">>
    \o [i \in 1 .. Len(ns) |-> CanvasNodeLine(ns[i])]
    \o (IF HasConnections(cs) THEN <<CanvasConnectionsHeader>> \o CanvasConnectionLines(ns, cs)
        ELSE <<>>)
    \o (IF CanvasIsEmpty(ns) THEN <<CanvasEmptyMarker>> ELSE <<>>)

(* ---- renderProperties ---- *)

PropertiesPrompt == " Select a node to edit its properties "

PropertiesNotFound == " Node not found "

RenderProperties(ns, sel) ==
    IF ~IdTruthy(sel) THEN PropertiesPrompt
    ELSE LET i == Find(ns, sel)
         IN  IF i = 0 THEN PropertiesNotFound
             ELSE " Selected: {bold}" \o ns[i].name \o "{/}\n"
                  \o " Type: {" \o NODE_TYPES[ns[i].type].color \o "}"
                  \o NODE_TYPES[ns[i].type].label \o "{/}\n"
                  \o " Description: " \o NODE_TYPES[ns[i].type].description \o "\n\n"
                  \o " [Enter] Edit name | [d] Delete | [Esc] Deselect "

(* ---- the node operations ---- *)

\* `node_${Date.now()}`
NodeId(t) == "node_" \o ToString(t)

\* a plausible slip in the default name: the count before the add is used
DefaultNameZeroBased(type, ns) == "new_" \o type \o "_" \o ToString(Len(ns))

\* `new_${type}_${nodes.length + 1}`
DefaultName(type, ns) == "new_" \o type \o "_" \o ToString(Len(ns) + 1)

\* the object pushed by addNode
NewNode(type, t, ns) == [id |-> NodeId(t), type |-> type, name |-> DefaultName(type, ns)]

\* a plausible slip in addNode: the new node is put first (unshift for push)
Unshift(ns, n) == <<n>> \o ns

\* nodes.push(n)
Push(ns, n) == Append(ns, n)

\* nodes.filter(n => n.id !== selectedNode)
FilterNodes(ns, sel) == SelectSeq(ns, LAMBDA n : n.id # sel)

\* a plausible slip in the cascade: only the edges leaving the node are removed
FilterConnectionsFromOnly(cs, sel) == SelectSeq(cs, LAMBDA c : c.from # sel)

\* connections.filter(c => c.from !== selectedNode && c.to !== selectedNode)
FilterConnections(cs, sel) == SelectSeq(cs, LAMBDA c : c.from # sel /\ c.to # sel)

\* a plausible slip in deleteNode: the selection is left as it was
KeptSelection == selectedNode

\* selectedNode = null, in deleteNode
ClearedSelection == null

\* a plausible variant of the guard of deleteNode: deleting with nothing selected
\* is reported as an error
NoSelectionError == "NotFound"

\* if (!selectedNode) return;  -- deleteNode just returns, it reports nothing
NoSelectionReturn == "ok"

\* a plausible slip in the select handler: the last node is taken whatever the index
SelectedIdLast(ns, index) == ns[Len(ns)].id

\* nodes[index].id, for a 0-based index that has a node
SelectedId(ns, index) == ns[index + 1].id

\* if (nodes[index]): the 0-based index has a node
HasNode(ns, index) == index + 1 \in DOMAIN ns

(* ---- generateCode ---- *)

\* `workflow-${Date.now()}`
WorkflowId(t) == "workflow-" \o ToString(t)

\* the element of workflow.agents made from one node
AgentSpec(n) ==
    [ name           |-> n.name,
      class          |-> "AssistantAgent",
      system_message |-> "",
      llm_config     |-> [model |-> "gpt-4", temperature |-> "0.3"],
      tools          |-> <<>> ]

\* a plausible slip in the filter: every node is taken for an agent
AgentNodesUnfiltered(ns) == ns

\* nodes.filter(n => n.type === 'agent')
AgentNodes(ns) == SelectSeq(ns, LAMBDA n : n.type = "agent")

\* n => n.name
NodeName(n) == n.name

\* a plausible slip: the orchestration lists the agent nodes only, as `agents` does
OrchestrationAgentsOnly(ns) ==
    LET as == AgentNodes(ns) IN [i \in 1 .. Len(as) |-> NodeName(as[i])]

\* nodes.map(n => n.name)
OrchestrationAgents(ns) == [i \in 1 .. Len(ns) |-> NodeName(ns[i])]

Workflow(ns, t) ==
    [ schema_version |-> "2.0",
      workflow_id    |-> WorkflowId(t),
      agents         |-> LET as == AgentNodes(ns)
                         IN  [i \in 1 .. Len(as) |-> AgentSpec(as[i])],
      orchestration  |-> [type |-> "Sequential", agents |-> OrchestrationAgents(ns)] ]

(* ---- the state after the module has been loaded ---- *)

Init ==
    /\ nodes = <<>>
    /\ connections = <<>>
    /\ selectedNode = null
    /\ listItems = RenderList(<<>>)
    /\ canvasContent = RenderCanvas(<<>>, <<>>)
    /\ propertiesContent = RenderProperties(<<>>, null)
    /\ printed = <<>>
    /\ workflowIds = <<>>
    /\ addCount = 0
    /\ deleteCount = 0
    /\ lastEvent = [op |-> "init", index |-> 0, kind |-> ""]
    /\ outcome = "ok"
    /\ now = 0

(* ---- the handlers ---- *)

\* a plausible slip in addNode: the call of renderNodes() is forgotten
addNodeNoRender(type) ==
    /\ addCount < MaxAdds
    /\ \E t \in Clock(now) :
         /\ nodes' = Push(nodes, NewNode(type, t, nodes))
         /\ now' = t
    /\ addCount' = addCount + 1
    /\ lastEvent' = [op |-> "add", index |-> 0, kind |-> type]
    /\ outcome' = "ok"
    /\ UNCHANGED <<connections, selectedNode, listItems, canvasContent,
                   propertiesContent, printed, workflowIds, deleteCount>>

\* screen.key a/i/s/p -> addNode(type)
addNode(type) ==
    /\ addCount < MaxAdds
    /\ \E t \in Clock(now) :
         LET ns == Push(nodes, NewNode(type, t, nodes))
         IN  /\ nodes' = ns
             /\ listItems' = RenderList(ns)
             /\ canvasContent' = RenderCanvas(ns, connections)
             /\ now' = t
    /\ addCount' = addCount + 1
    /\ lastEvent' = [op |-> "add", index |-> 0, kind |-> type]
    /\ outcome' = "ok"
    /\ UNCHANGED <<connections, selectedNode, propertiesContent, printed, workflowIds,
                   deleteCount>>

\* nodeList.on('select', (item, index) => ...)
select(index) ==
    /\ IF HasNode(nodes, index)
       THEN /\ selectedNode' = SelectedId(nodes, index)
            /\ propertiesContent' = RenderProperties(nodes, SelectedId(nodes, index))
       ELSE UNCHANGED <<selectedNode, propertiesContent>>
    /\ lastEvent' = [op |-> "select", index |-> index, kind |-> ""]
    /\ outcome' = "ok"
    /\ UNCHANGED <<nodes, connections, listItems, canvasContent, printed, workflowIds,
                   addCount, deleteCount, now>>

\* screen.key d -> deleteNode()
deleteNode ==
    /\ IF ~IdTruthy(selectedNode)
       THEN UNCHANGED <<nodes, connections, selectedNode, listItems, canvasContent,
                        propertiesContent, deleteCount>>
       ELSE LET ns == FilterNodes(nodes, selectedNode)
                cs == FilterConnections(connections, selectedNode)
                sel == ClearedSelection
            IN  /\ nodes' = ns
                /\ connections' = cs
                /\ selectedNode' = sel
                /\ listItems' = RenderList(ns)
                /\ canvasContent' = RenderCanvas(ns, cs)
                /\ propertiesContent' = RenderProperties(ns, sel)
                /\ deleteCount' = deleteCount + 1
    /\ lastEvent' = [op |-> "delete", index |-> 0, kind |-> ""]
    /\ outcome' = IF ~IdTruthy(selectedNode) THEN NoSelectionReturn ELSE "ok"
    /\ UNCHANGED <<printed, workflowIds, addCount, now>>

\* a plausible slip in generateCode: the filter result is assigned to nodes
generateCodeFiltering ==
    /\ Len(workflowIds) < MaxExports
    /\ \E t \in Clock(now) :
         LET workflow == Workflow(nodes, t)
         IN  /\ printed' = <<workflow>>
             /\ workflowIds' = Append(workflowIds, workflow.workflow_id)
             /\ now' = t
    /\ nodes' = AgentNodes(nodes)
    /\ lastEvent' = [op |-> "export", index |-> 0, kind |-> ""]
    /\ outcome' = "ok"
    /\ UNCHANGED <<connections, selectedNode, listItems, canvasContent,
                   propertiesContent, addCount, deleteCount>>

\* screen.key g -> generateCode()
generateCode ==
    /\ Len(workflowIds) < MaxExports
    /\ \E t \in Clock(now) :
         LET workflow == Workflow(nodes, t)
         IN  /\ printed' = <<workflow>>
             /\ workflowIds' = Append(workflowIds, workflow.workflow_id)
             /\ now' = t
    /\ lastEvent' = [op |-> "export", index |-> 0, kind |-> ""]
    /\ outcome' = "ok"
    /\ UNCHANGED <<nodes, connections, selectedNode, listItems, canvasContent,
                   propertiesContent, addCount, deleteCount>>

Next ==
    \/ \E type \in Kinds : addNode(type)
    \/ \E index \in SelectIndexes : select(index)
    \/ deleteNode
    \/ generateCode

Spec == Init /\ [][Next]_vars

(* ---- registries with edges ---- *)

(* No handler of the program writes to `connections`, so under Spec the cascade *)
(* of deleteNode always filters an empty array.  To exercise it, SpecEdges      *)
(* starts the same handlers from a drawn registry: nodes as addNode makes them, *)
(* edges between ids of those nodes, and any of them (or none) selected.        *)

\* the kind of the nodes of a drawn registry (the kind plays no part in deleteNode)
DrawnKind == "agent"

\* the registries k calls of addNode can build, each with the last clock reading
RECURSIVE DrawnRegistries(_)
DrawnRegistries(k) ==
    IF k = 0 THEN {[ns |-> <<>>, t |-> 0]}
    ELSE UNION { { [ns |-> Push(r.ns, NewNode(DrawnKind, t, r.ns)), t |-> t]
                   : t \in Clock(r.t) }
                 : r \in DrawnRegistries(k - 1) }

\* the arrays of at most MaxEdges {from, to} objects over a set of ids
DrawnConnections(ids) ==
    UNION { [1 .. n -> [from : ids, to : ids]] : n \in 0 .. MaxEdges }

InitEdges ==
    \E k \in 0 .. MaxAdds :
      \E r \in DrawnRegistries(k) :
        \E cs \in DrawnConnections(IdsOf(r.ns)) :
          \E sel \in {null} \cup IdsOf(r.ns) :
            /\ nodes = r.ns
            /\ connections = cs
            /\ selectedNode = sel
            /\ listItems = RenderList(r.ns)
            /\ canvasContent = RenderCanvas(r.ns, cs)
            /\ propertiesContent = RenderProperties(r.ns, sel)
            /\ printed = <<>>
            /\ workflowIds = <<>>
            /\ addCount = Len(r.ns)
            /\ deleteCount = 0
            /\ lastEvent = [op |-> "init", index |-> 0, kind |-> ""]
            /\ outcome = "ok"
            /\ now = r.t

SpecEdges == InitEdges /\ [][Next]_vars

(* ---- longer registries ---- *)

(* The handlers started from a registry of up to MaxDrawn nodes, as that many *)
(* calls of addNode leave it, with any of the nodes (or none) selected: the   *)
(* registries in which a delete leaves several nodes behind.                  *)

InitRegistry ==
    \E k \in 0 .. MaxDrawn :
      \E r \in DrawnRegistries(k) :
        \E sel \in {null} \cup IdsOf(r.ns) :
          /\ nodes = r.ns
          /\ connections = <<>>
          /\ selectedNode = sel
          /\ listItems = RenderList(r.ns)
          /\ canvasContent = RenderCanvas(r.ns, <<>>)
          /\ propertiesContent = RenderProperties(r.ns, sel)
          /\ printed = <<>>
          /\ workflowIds = <<>>
          /\ addCount = Len(r.ns)
          /\ deleteCount = 0
          /\ lastEvent = [op |-> "init", index |-> 0, kind |-> ""]
          /\ outcome = "ok"
          /\ now = r.t

SpecRegistry == InitRegistry /\ [][Next]_vars

(* ---- helpers of the properties ---- *)

\* s is t with some elements left out, order kept
RECURSIVE IsSubsequence(_, _)
IsSubsequence(s, t) ==
    IF s = <<>> THEN TRUE
    ELSE IF t = <<>> THEN FALSE
    ELSE IF Head(s) = Head(t) THEN IsSubsequence(Tail(s), Tail(t))
    ELSE IsSubsequence(s, Tail(t))

(* ---- C1 ---- *)

\* C1: node ids are unique: no two nodes of the registry have the same id,
\* whatever the clock read at each add.
NodeIdsUnique ==
    \A i, j \in DOMAIN nodes : i # j => nodes[i].id # nodes[j].id

(* ---- C2 ---- *)

\* C2: size accounting: the number of nodes equals the number of add events
\* minus the number of delete events issued while a node was selected.
SizeAccounting == Len(nodes) = addCount - deleteCount

(* ---- C3 ---- *)

\* C3: selection validity: selectedNode is empty or the id of a node of the
\* registry; after a delete event it is empty; and the properties panel never
\* shows the 'Node not found' text.
SelectionValid ==
    /\ selectedNode = null \/ \E i \in DOMAIN nodes : nodes[i].id = selectedNode
    /\ lastEvent.op = "delete" => selectedNode = null
    /\ propertiesContent # PropertiesNotFound

\* a selected node has just been deleted while other nodes remain
SelectionValidWitness ==
    /\ lastEvent.op = "delete"
    /\ deleteCount >= 1
    /\ Len(nodes) >= 1
    /\ selectedNode = null


(* ---- C4 ---- *)

\* both endpoints of every connection are ids of nodes of the registry
EdgesResolve ==
    \A k \in DOMAIN connections :
        /\ connections[k].from \in IdsOf(nodes)
        /\ connections[k].to \in IdsOf(nodes)

\* the positions of the connections that do not reference the node with id x
Unreferencing(cs, x) == {k \in DOMAIN cs : cs[k].from # x /\ cs[k].to # x}

\* C4: right after deleteNode removes the node with id X no connection from or
\* to X remains and the connections not referencing X are kept, in order; so in
\* every state both endpoints of every connection are ids of nodes present.
CascadeDelete ==
    /\ []EdgesResolve
    /\ [][ (lastEvent'.op = "delete" /\ selectedNode # null) =>
             /\ ~(selectedNode \in IdsOf(nodes'))
             /\ \A k \in DOMAIN connections' :
                  /\ connections'[k].from # selectedNode
                  /\ connections'[k].to # selectedNode
             /\ IsSubsequence(connections', connections)
             /\ Len(connections') = Cardinality(Unreferencing(connections, selectedNode))
          ]_vars

\* a node of a drawn registry has been deleted and an edge between nodes that
\* remain is still there
CascadeDeleteWitness ==
    /\ lastEvent.op = "delete"
    /\ deleteCount = 1
    /\ addCount = MaxAdds
    /\ Len(nodes) = MaxAdds - 1
    /\ Len(connections) = 1

(* ---- C5 ---- *)

AgentPositions(ns) == {i \in DOMAIN ns : ns[i].type = "agent"}

\* the position of the k-th agent node of a registry
KthAgent(ns, k) ==
    CHOOSE i \in AgentPositions(ns) :
        Cardinality({j \in AgentPositions(ns) : j <= i}) = k

\* C6: the agents array of the exported document has exactly one entry per node
\* of kind agent, in registry order, each with that node's name, class
\* AssistantAgent, empty system_message, llm_config {gpt-4, 0.3} and empty tools.
ExportAgents ==
    lastEvent.op = "export" =>
        LET agents == printed[1].agents
        IN  /\ Len(agents) = Cardinality(AgentPositions(nodes))
            /\ \A k \in DOMAIN agents :
                 /\ agents[k].name = nodes[KthAgent(nodes, k)].name
                 /\ agents[k].class = "AssistantAgent"
                 /\ agents[k].system_message = ""
                 /\ agents[k].llm_config = [model |-> "gpt-4", temperature |-> "0.3"]
                 /\ agents[k].tools = <<>>

\* a registry with an agent node after a node of another kind has been exported
ExportAgentsWitness ==
    /\ lastEvent.op = "export"
    /\ Len(nodes) = 2
    /\ nodes[1].type # "agent"
    /\ nodes[2].type = "agent"
    /\ Len(printed[1].agents) = 1

(* ---- C7 ---- *)

\* C7: orchestration.agents of the exported document is the sequence of the names
\* of all nodes in registry order, the names in agents form a subsequence of it,
\* and orchestration.type is Sequential.
ExportOrchestration ==
    lastEvent.op = "export" =>
        LET doc == printed[1]
        IN  /\ doc.orchestration.type = "Sequential"
            /\ Len(doc.orchestration.agents) = Len(nodes)
            /\ \A i \in DOMAIN nodes : doc.orchestration.agents[i] = nodes[i].name
            /\ IsSubsequence([k \in DOMAIN doc.agents |-> doc.agents[k].name],
                             doc.orchestration.agents)

\* a registry holding an agent node and a node of another kind has been exported
ExportOrchestrationWitness ==
    /\ lastEvent.op = "export"
    /\ Len(printed[1].orchestration.agents) = 2
    /\ Len(printed[1].agents) = 1

(* ---- C8 ---- *)

\* C8: the list view has one line per node in registry order when the registry
\* is not empty, and the single placeholder line when it is empty.
ListProjection ==
    IF Len(nodes) = 0
    THEN listItems = <<ListPlaceholder>>
    ELSE /\ Len(listItems) = Len(nodes)
         /\ \A i \in DOMAIN nodes : listItems[i] = ListItem(nodes[i])

(* ---- C9 ---- *)

\* C9: the displayed canvas text contains the empty-state message if and only if
\* the registry holds no node.
CanvasMarkerIffEmpty ==
    (\E k \in DOMAIN canvasContent : canvasContent[k] = CanvasEmptyMarker)
        <=> Len(nodes) = 0

\* the last node has just been deleted and the canvas shows the message again
CanvasMarkerWitness ==
    /\ lastEvent.op = "delete"
    /\ deleteCount >= 1
    /\ Len(nodes) = 0
    /\ canvasContent[Len(canvasContent)] = CanvasEmptyMarker

(* ---- C10 ---- *)

\* C10: any two export events of a run produce different workflow_id values.
WorkflowIdsUnique ==
    \A i, j \in DOMAIN workflowIds : i # j => workflowIds[i] # workflowIds[j]


(* ---- C11 ---- *)

\* C11: a delete event issued while nothing is selected is a no-op: nodes,
\* connections and selectedNode (and with them the three displayed texts) stay
\* exactly as they were, and no error is reported.
DeleteWithoutSelectionNoOp ==
    [][ (lastEvent'.op = "delete" /\ selectedNode = null) =>
          /\ nodes' = nodes
          /\ connections' = connections
          /\ selectedNode' = null
          /\ listItems' = listItems
          /\ canvasContent' = canvasContent
          /\ propertiesContent' = propertiesContent
          /\ outcome' = "ok" ]_vars

\* a delete event has been handled with nodes in the registry and none selected
DeleteWithoutSelectionWitness ==
    /\ lastEvent.op = "delete"
    /\ deleteCount = 0
    /\ selectedNode = null
    /\ Len(nodes) = MaxAdds


(* ---- C12 ---- *)

\* the list view, the canvas view and the document just exported follow the
\* order of the registry
ViewsInRegistryOrder ==
    /\ Len(listItems) = Len(nodes)
    /\ \A i \in DOMAIN nodes :
         /\ listItems[i] = ListItem(nodes[i])
         /\ canvasContent[i + 1] = CanvasNodeLine(nodes[i])
    /\ lastEvent.op = "export" =>
         /\ Len(printed[1].orchestration.agents) = Len(nodes)
         /\ \A i \in DOMAIN nodes : printed[1].orchestration.agents[i] = nodes[i].name

\* C12: insertion order is preserved: add puts the new node after all existing
\* ones, no other event changes the relative order of the nodes that remain,
\* and this order is the one of the list view, the canvas view and the export.
OrderPreserved ==
    /\ []ViewsInRegistryOrder
    /\ [][ IF lastEvent'.op = "add"
           THEN /\ Len(nodes') = Len(nodes) + 1
                /\ \A i \in DOMAIN nodes : nodes'[i] = nodes[i]
           ELSE IsSubsequence(nodes', nodes) ]_vars

\* the first of three nodes has been deleted and the other two keep their order
OrderPreservedWitness ==
    /\ lastEvent.op = "delete"
    /\ deleteCount = 1
    /\ Len(nodes) = 2
    /\ nodes[1].name = DefaultName(DrawnKind, <<1>>)
    /\ nodes[2].name = DefaultName(DrawnKind, <<1, 2>>)


(* ---- C13 ---- *)

\* C13: there is a deselect operation: in every state some event clears
\* selectedNode and leaves nodes and connections unchanged.
DeselectAvailable ==
    ENABLED ( /\ Next
              /\ selectedNode' = null
              /\ nodes' = nodes
              /\ connections' = connections )


(* ---- C14 ---- *)

\* C14: after every event the three displayed texts are the projections of the
\* current nodes, connections and selectedNode: no view is stale.
DisplayConsistent ==
    /\ listItems = RenderList(nodes)
    /\ canvasContent = RenderCanvas(nodes, connections)
    /\ propertiesContent = RenderProperties(nodes, selectedNode)

\* a node has been added while another one was selected (addNode renders the
\* list and the canvas, not the properties panel)
DisplayConsistentWitness ==
    /\ lastEvent.op = "add"
    /\ Len(nodes) = 2
    /\ selectedNode = nodes[1].id
    /\ Len(listItems) = 2


(* ---- C15 ---- *)

\* what the properties panel shows for a node: its name, the label and the
\* description of its kind, and the actions of the panel
PanelOf(n) ==
    " Selected: {bold}" \o n.name \o "{/}\n"
    \o " Type: {" \o NODE_TYPES[n.type].color \o "}" \o NODE_TYPES[n.type].label \o "{/}\n"
    \o " Description: " \o NODE_TYPES[n.type].description \o "\n\n"
    \o " [Enter] Edit name | [d] Delete | [Esc] Deselect "

\* a registry without the node at position i
RemoveAt(ns, i) == SubSeq(ns, 1, i - 1) \o SubSeq(ns, i + 1, Len(ns))

\* C15: after a select event on an index that has a node the properties panel
\* shows the node at that position, and a delete event that follows removes
\* exactly that node.
SelectShowsChosen ==
    [][ /\ (lastEvent'.op = "select" /\ lastEvent'.index < Len(nodes')) =>
              propertiesContent' = PanelOf(nodes'[lastEvent'.index + 1])
        /\ (lastEvent.op = "select" /\ lastEvent.index < Len(nodes)
                                    /\ lastEvent'.op = "delete") =>
              nodes' = RemoveAt(nodes, lastEvent.index + 1) ]_vars


(* ---- C16 ---- *)

\* the names of the nodes of a registry, in order
NamesOf(ns) == [i \in DOMAIN ns |-> ns[i].name]

\* C16: the node created by addNode(kind) is of that kind and is named
\* new_<kind>_<k>, k being the number of nodes right after the add; and no
\* event changes the name of a node that is already there.
DefaultNameGiven ==
    [][ IF lastEvent'.op = "add"
        THEN /\ Len(nodes') = Len(nodes) + 1
             /\ nodes'[Len(nodes')].type = lastEvent'.kind
             /\ nodes'[Len(nodes')].name =
                    "new_" \o lastEvent'.kind \o "_" \o ToString(Len(nodes'))
             /\ \A i \in DOMAIN nodes : nodes'[i].name = nodes[i].name
        ELSE IsSubsequence(NamesOf(nodes'), NamesOf(nodes)) ]_vars

\* a parallel node has been added to a registry that held one agent node
DefaultNameWitness ==
    /\ lastEvent = [op |-> "add", index |-> 0, kind |-> "parallel"]
    /\ Len(nodes) = 2
    /\ nodes[1].name = "new_agent_1"
    /\ nodes[2].name = "new_parallel_2"


(* ---- C17 ---- *)

\* C17: no edge is ever created: connections is empty in every state and the
\* canvas never has a 'Connections:' section, although the help bar advertises
\* the key c, to which no handler is bound.
NoEdgeEver ==
    /\ connections = <<>>
    /\ \A k \in DOMAIN canvasContent : canvasContent[k] # CanvasConnectionsHeader
    /\ "c" \in HelpBarKeys
    /\ ~("c" \in BoundKeys)

\* add, select, delete and generate events have all been handled, nodes remain
\* and there is still no edge
NoEdgeEverWitness ==
    /\ lastEvent.op = "delete"
    /\ deleteCount >= 1
    /\ Len(nodes) >= 1
    /\ workflowIds # <<>>
    /\ connections = <<>>


(* ---- C18 ---- *)

\* a document with its workflow_id blanked
WithoutId(doc) == [doc EXCEPT !.workflow_id = ""]

\* C18: an export event leaves nodes, connections and selectedNode unchanged,
\* and two exports with no event in between print documents that differ at most
\* in workflow_id.
ExportReadOnly ==
    [][ lastEvent'.op = "export" =>
          /\ nodes' = nodes
          /\ connections' = connections
          /\ selectedNode' = selectedNode
          /\ lastEvent.op = "export" => WithoutId(printed'[1]) = WithoutId(printed[1])
      ]_vars

\* two documents with different ids have been printed, the second of a registry
\* that holds an agent node and a node of another kind, one of them selected
ExportReadOnlyWitness ==
    /\ lastEvent.op = "export"
    /\ Len(workflowIds) = 2
    /\ workflowIds[1] # workflowIds[2]
    /\ Len(printed[1].agents) = 1
    /\ Len(nodes) = 2
    /\ selectedNode # null


====
